---- MODULE Spec2Model ----
(***************************************************************************)
(* Model of the prepona graph library core:                                *)
(*   - storage/adj_matrix/mod.rs : AdjMatrix (flat adjacency matrix with   *)
(*     vertex-id recycling)                                                *)
(*   - algo/connected_components.rs : ConnectedComponents (DFS listener)   *)
(*                                                                         *)
(* A Rust panic unwinds: the fields of the object keep whatever the        *)
(* operation had written before the panic and stay observable to a caller  *)
(* that catches the unwind.  Each operation therefore records its outcome  *)
(* in `last` and leaves the storage as the code left it at that point.     *)
(***************************************************************************)
EXTENDS Integers, Sequences, FiniteSets, TLC

\* ------------------------------------------------------------------ bounds
MaxVertices == 2   \* largest vertex_count the model lets add_vertex reach
MaxEdges == 1      \* largest number of finite slots add_edge may produce
MaxRealId == 2     \* graphs given to the algorithms have real ids in 0..MaxRealId
MaxKEdges == 3     \* weighted graphs given to Kruskal have at most MaxKEdges edges
MaxKWeight == 2    \* with weights in 1..MaxKWeight
MaxRoots == 2      \* MultiRootSubgraph::init is given at most MaxRoots roots

Ids == 0..MaxVertices        \* ids a caller passes (one past every sequential id)
Weights == {"w"}             \* W is an opaque type parameter of AdjMatrix<W>

\* ------------------------------------------------------- Magnitude<W>
PosInfinite == [tag |-> "PosInfinite", val |-> ""]
Finite(w) == [tag |-> "Finite", val |-> w]

VARIABLES
    vec,            \* AdjMatrix.vec : sequence of Magnitude (slot k is vec[k+1])
    reusable_ids,   \* AdjMatrix.reusable_ids
    vertex_count,   \* AdjMatrix.vertex_count
    edge_type,      \* AdjMatrix.edge_type : "Directed" | "Undirected"
    live,           \* history: ids returned by add_vertex and not since passed to remove_vertex
    returned,       \* history: ids returned by add_vertex, in call order
    only_adds,      \* history: TRUE while add_vertex is the only mutating operation called so far
    last            \* history: the last call and its outcome

matVars == <<vec, reusable_ids, vertex_count, edge_type, live, returned, only_adds, last>>

VARIABLES
    g_directed,     \* the graph handed to the algorithm: is it directed
    g_vertices,     \* its live real ids
    g_edges,        \* its edges, as pairs <<u, v>> with u < v
    listener,       \* ConnectedComponents: [current_component, ccs]
    colors,         \* Dfs: colour of each virtual id
    stack,          \* Dfs: the active path, as virtual ids
    result,         \* value returned by ConnectedComponents::execute
    dfs_pc          \* position: "new", "ready", "idle", "tree", "done", "panicked"

ccVars == <<g_directed, g_vertices, g_edges, listener, colors, stack, result, dfs_pc>>

VARIABLES
    g_wedges,       \* weighted undirected edges of the graph, <<src, dst, weight>> as added
    k_sets,         \* Kruskal.sets : virtual id -> set of member virtual ids
    k_edges,        \* execute: the filtered, sorted edge list
    k_pos,          \* execute: index in k_edges of the next edge of the for loop
    k_mst,          \* execute: mst, the accepted (real, real) pairs
    k_result,       \* value returned by Kruskal::execute
    k_pc            \* position: "new", "ready", "loop", "done"

kVars == <<g_wedges, k_sets, k_edges, k_pos, k_mst, k_result, k_pc>>

VARIABLES
    mr_args,        \* arguments given to MultiRootSubgraph::init: [vertices, roots]
    mr_self,        \* MultiRootSubgraph: [roots, vertices]
    mr_last,        \* history: the last is_root call, [id, ret]
    mr_pc           \* position: "new", "built", "asked"

mrVars == <<mr_args, mr_self, mr_last, mr_pc>>

vars == <<matVars, ccVars, kVars, mrVars>>

\* The storage as one value (`self`).
Self == [vec |-> vec, reusable_ids |-> reusable_ids,
         vertex_count |-> vertex_count, edge_type |-> edge_type]

is_directed(self) == self.edge_type = "Directed"

is_undirected(self) == self.edge_type = "Undirected"

total_vertex_count(self) == self.vertex_count + Cardinality(self.reusable_ids)

Max2(a, b) == IF a > b THEN a ELSE b

Min2(a, b) == IF a < b THEN a ELSE b

\* utils::from_ij : slot index of (i, j).  Directed: the k-th vertex owns the
\* shell k*k .. k*k+2k of a growing square; undirected: triangular half over
\* min/max(i, j).
from_ij(i, j, directed) ==
    IF directed
    THEN LET k == Max2(i, j) IN (k - i) + j + k * k
    ELSE LET lo == Min2(i, j)
             hi == Max2(i, j)
         IN  lo + (hi * (hi + 1)) \div 2

\* index whose bound test is off by one (the last slot is refused).
index_last_refused(self, i, j) ==
    IF i \in self.reusable_ids
    THEN [outcome |-> "invalid_vertex", id |-> i, slot |-> 0]
    ELSE IF j \in self.reusable_ids
    THEN [outcome |-> "invalid_vertex", id |-> j, slot |-> 0]
    ELSE LET k == from_ij(i, j, is_directed(self))
         IN  IF k + 1 < Len(self.vec)
             THEN [outcome |-> "ok", id |-> 0, slot |-> k]
             ELSE [outcome |-> "out_of_bounds", id |-> 0, slot |-> k]

\* Index::index : outcome of a read access at (i, j).
index(self, i, j) ==
    IF i \in self.reusable_ids
    THEN [outcome |-> "invalid_vertex", id |-> i, slot |-> 0]
    ELSE IF j \in self.reusable_ids
    THEN [outcome |-> "invalid_vertex", id |-> j, slot |-> 0]
    ELSE LET k == from_ij(i, j, is_directed(self))
         IN  IF k < Len(self.vec)
             THEN [outcome |-> "ok", id |-> 0, slot |-> k]
             ELSE [outcome |-> "out_of_bounds", id |-> 0, slot |-> k]

\* index_mut with the two membership tests in the other order (j reported first).
index_mut_j_first(self, i, j) ==
    IF j \in self.reusable_ids
    THEN [outcome |-> "invalid_vertex", id |-> j, slot |-> 0]
    ELSE IF i \in self.reusable_ids
    THEN [outcome |-> "invalid_vertex", id |-> i, slot |-> 0]
    ELSE LET k == from_ij(i, j, is_directed(self))
         IN  IF k < Len(self.vec)
             THEN [outcome |-> "ok", id |-> 0, slot |-> k]
             ELSE [outcome |-> "out_of_bounds", id |-> 0, slot |-> k]

\* IndexMut::index_mut : outcome of a write access at (i, j).
index_mut(self, i, j) ==
    IF i \in self.reusable_ids
    THEN [outcome |-> "invalid_vertex", id |-> i, slot |-> 0]
    ELSE IF j \in self.reusable_ids
    THEN [outcome |-> "invalid_vertex", id |-> j, slot |-> 0]
    ELSE LET k == from_ij(i, j, is_directed(self))
         IN  IF k < Len(self.vec)
             THEN [outcome |-> "ok", id |-> 0, slot |-> k]
             ELSE [outcome |-> "out_of_bounds", id |-> 0, slot |-> k]

\* `self[(i, j)] = value` : the storage after the assignment, with its outcome.
assign(self, i, j, value) ==
    LET r == index_mut(self, i, j)
    IN  IF r.outcome = "ok"
        THEN [self |-> [self EXCEPT !.vec[r.slot + 1] = value], outcome |-> "ok", id |-> 0]
        ELSE [self |-> self, outcome |-> r.outcome, id |-> r.id]

\* Vec::resize_with(new_size, || PosInfinite) : truncates or pads.
resize_with(v, new_size) ==
    IF new_size <= Len(v)
    THEN SubSeq(v, 1, new_size)
    ELSE v \o [k \in 1..(new_size - Len(v)) |-> PosInfinite]

FiniteSlots(v) == Cardinality({k \in 1..Len(v) : v[k].tag = "Finite"})

NoCall == [op |-> "init", i |-> 0, j |-> 0, w |-> "", outcome |-> "ok",
           id |-> 0, val |-> PosInfinite, again |-> FALSE]

\* ------------------------------------------------------------------- Init
\* No algorithm is running.
NoAlgorithm ==
    /\ g_directed = FALSE
    /\ g_vertices = {}
    /\ g_edges = {}
    /\ listener = [current_component |-> <<>>, ccs |-> <<>>]
    /\ colors = <<>>
    /\ stack = <<>>
    /\ result = <<>>
    /\ dfs_pc = "new"

\* No Kruskal run.
NoKruskal ==
    /\ g_wedges = {}
    /\ k_sets = <<>>
    /\ k_edges = <<>>
    /\ k_pos = 1
    /\ k_mst = <<>>
    /\ k_result = <<>>
    /\ k_pc = "new"

\* No subgraph.
NoSubgraph ==
    /\ mr_args = [vertices |-> <<>>, roots |-> <<>>]
    /\ mr_self = [vertices |-> <<>>, roots |-> <<>>]
    /\ mr_last = [id |-> 0, ret |-> FALSE]
    /\ mr_pc = "new"

\* AdjMatrix::init(edge_type)
MatInit(et) ==
    /\ vec = <<>>
    /\ reusable_ids = {}
    /\ vertex_count = 0
    /\ edge_type = et
    /\ live = {}
    /\ returned = <<>>
    /\ only_adds = TRUE
    /\ last = NoCall

Init ==
    /\ \E et \in {"Directed", "Undirected"} : MatInit(et)
    /\ NoAlgorithm
    /\ NoKruskal
    /\ NoSubgraph

\* ------------------------------------------------------------- operations
Some(id) == [some |-> TRUE, id |-> id]

None == [some |-> FALSE, id |-> 0]

\* next_reusable_id that hands the id out without taking it from the set.
next_reusable_id_keep(self, first) ==
    IF self.reusable_ids # {}
    THEN [self |-> self, ret |-> Some(first)]
    ELSE [self |-> self, ret |-> None]

\* AdjMatrix::next_reusable_id : `first` is the element the HashSet iterator
\* yields first (any member; iteration order is unspecified).
next_reusable_id(self, first) ==
    IF self.reusable_ids # {}
    THEN [self |-> [self EXCEPT !.reusable_ids = @ \ {first}], ret |-> Some(first)]
    ELSE [self |-> self, ret |-> None]

\* add_vertex whose directed growth is one slot short (2k instead of 2k+1).
add_vertex_short(self, first) ==
    LET r == next_reusable_id(self, first)
    IN  IF r.ret.some
        THEN [self |-> r.self, id |-> r.ret.id]
        ELSE LET new_size == IF is_directed(r.self)
                             THEN Len(r.self.vec) + 2 * total_vertex_count(r.self)
                             ELSE total_vertex_count(r.self) + 1
                 grown == [r.self EXCEPT !.vec = resize_with(@, new_size),
                                         !.vertex_count = @ + 1]
             IN  [self |-> grown, id |-> grown.vertex_count - 1]

\* GraphStorage::add_vertex
add_vertex(self, first) ==
    LET r == next_reusable_id(self, first)
    IN  IF r.ret.some
        THEN [self |-> r.self, id |-> r.ret.id]
        ELSE LET new_size == IF is_directed(r.self)
                             THEN Len(r.self.vec) + 2 * total_vertex_count(r.self) + 1
                             ELSE total_vertex_count(r.self) + 1
                 grown == [r.self EXCEPT !.vec = resize_with(@, new_size),
                                         !.vertex_count = @ + 1]
             IN  [self |-> grown, id |-> grown.vertex_count - 1]

\* The loop of remove_vertex from `other_id` up to (excluding) `total`; a
\* failing access ends it with the storage as written so far.
RECURSIVE remove_vertex_loop(_, _, _, _)
remove_vertex_loop(self, vertex_id, other_id, total) ==
    IF other_id >= total
    THEN [self |-> self, outcome |-> "ok", id |-> 0]
    ELSE LET a == assign(self, vertex_id, other_id, PosInfinite)
         IN  IF a.outcome # "ok"
             THEN a
             ELSE LET b == assign(a.self, other_id, vertex_id, PosInfinite)
                  IN  IF b.outcome # "ok"
                      THEN b
                      ELSE remove_vertex_loop(b.self, vertex_id, other_id + 1, total)

\* GraphStorage::remove_vertex
remove_vertex(self, vertex_id) ==
    LET marked == [self EXCEPT !.reusable_ids = @ \cup {vertex_id}]
        looped == remove_vertex_loop(marked, vertex_id, 0, total_vertex_count(marked))
    IN  IF looped.outcome # "ok"
        THEN looped
        ELSE IF looped.self.vertex_count = 0
        THEN [self |-> looped.self, outcome |-> "overflow", id |-> 0]
        ELSE [self |-> [looped.self EXCEPT !.vertex_count = @ - 1],
              outcome |-> "ok", id |-> 0]

\* GraphStorage::add_edge
add_edge(self, vertex1, vertex2, edge) == assign(self, vertex1, vertex2, edge)

\* remove_edge that reads the slot without swapping the sentinel in.
remove_edge_no_swap(self, vertex1, vertex2) ==
    LET r == index_mut(self, vertex1, vertex2)
    IN  IF r.outcome = "ok"
        THEN [self |-> self, outcome |-> "ok", id |-> 0, val |-> self.vec[r.slot + 1]]
        ELSE [self |-> self, outcome |-> r.outcome, id |-> r.id, val |-> PosInfinite]

\* GraphStorage::remove_edge : swaps PosInfinite into the slot, returns the old value.
remove_edge(self, vertex1, vertex2) ==
    LET r == index_mut(self, vertex1, vertex2)
    IN  IF r.outcome = "ok"
        THEN [self |-> [self EXCEPT !.vec[r.slot + 1] = PosInfinite],
              outcome |-> "ok", id |-> 0, val |-> self.vec[r.slot + 1]]
        ELSE [self |-> self, outcome |-> r.outcome, id |-> r.id, val |-> PosInfinite]

\* GraphStorage::vertex_count
vertex_count_of(self) == self.vertex_count

\* ---------------------------------------------------------------- actions
SetSelf(s) ==
    /\ vec' = s.vec
    /\ reusable_ids' = s.reusable_ids
    /\ vertex_count' = s.vertex_count
    /\ edge_type' = s.edge_type

Again(op, i, j) ==
    /\ last.op = op
    /\ last.i = i
    /\ last.j = j
    /\ last.outcome = "ok"

AddVertex ==
    \E first \in (IF reusable_ids = {} THEN {0} ELSE reusable_ids) :
        LET r == add_vertex(Self, first)
        IN  /\ r.self.vertex_count <= MaxVertices
            /\ SetSelf(r.self)
            /\ live' = live \cup {r.id}
            /\ returned' = IF only_adds THEN Append(returned, r.id) ELSE returned
            /\ UNCHANGED only_adds
            /\ last' = [op |-> "add_vertex", i |-> 0, j |-> 0, w |-> "",
                        outcome |-> "ok", id |-> r.id, val |-> PosInfinite,
                        again |-> FALSE]
            /\ UNCHANGED <<ccVars, kVars, mrVars>>

RemoveVertex ==
    \E vertex_id \in Ids :
        LET r == remove_vertex(Self, vertex_id)
        IN  /\ SetSelf(r.self)
            /\ live' = live \ {vertex_id}
            /\ returned' = <<>>
            /\ only_adds' = FALSE
            /\ last' = [op |-> "remove_vertex", i |-> vertex_id, j |-> 0, w |-> "",
                        outcome |-> r.outcome, id |-> r.id, val |-> PosInfinite,
                        again |-> Again("remove_vertex", vertex_id, 0)]
            /\ UNCHANGED <<ccVars, kVars, mrVars>>

AddEdge ==
    \E vertex1 \in Ids, vertex2 \in Ids, w \in Weights :
        LET r == add_edge(Self, vertex1, vertex2, Finite(w))
        IN  /\ FiniteSlots(r.self.vec) <= MaxEdges
            /\ SetSelf(r.self)
            /\ returned' = <<>>
            /\ only_adds' = FALSE
            /\ UNCHANGED live
            /\ last' = [op |-> "add_edge", i |-> vertex1, j |-> vertex2, w |-> w,
                        outcome |-> r.outcome, id |-> r.id, val |-> PosInfinite,
                        again |-> Again("add_edge", vertex1, vertex2)]
            /\ UNCHANGED <<ccVars, kVars, mrVars>>

RemoveEdge ==
    \E vertex1 \in Ids, vertex2 \in Ids :
        LET r == remove_edge(Self, vertex1, vertex2)
        IN  /\ SetSelf(r.self)
            /\ returned' = <<>>
            /\ only_adds' = FALSE
            /\ UNCHANGED live
            /\ last' = [op |-> "remove_edge", i |-> vertex1, j |-> vertex2, w |-> "",
                        outcome |-> r.outcome, id |-> r.id, val |-> r.val,
                        again |-> Again("remove_edge", vertex1, vertex2)]
            /\ UNCHANGED <<ccVars, kVars, mrVars>>

\* Read access `self[(i, j)]`.
IndexRead ==
    \E i \in Ids, j \in Ids :
        LET r == index(Self, i, j)
        IN  /\ UNCHANGED <<vec, reusable_ids, vertex_count, edge_type, live>>
            /\ UNCHANGED <<returned, only_adds>>
            /\ last' = [op |-> "index", i |-> i, j |-> j, w |-> "",
                        outcome |-> r.outcome, id |-> r.id,
                        val |-> IF r.outcome = "ok" THEN vec[r.slot + 1] ELSE PosInfinite,
                        again |-> Again("index", i, j)]
            /\ UNCHANGED <<ccVars, kVars, mrVars>>

Next ==
    \/ AddVertex
    \/ RemoveVertex
    \/ AddEdge
    \/ RemoveEdge
    \/ IndexRead

Spec == Init /\ [][Next]_vars

\* ------------------------------------------------------ claims: AdjMatrix
Storage == <<vec, reusable_ids, vertex_count, edge_type>>

Directed == edge_type = "Directed"

\* Slot (i, j) of the storage `v` holds the absence sentinel, where it exists.
SlotAbsent(v, i, j) ==
    LET k == from_ij(i, j, Directed)
    IN  k < Len(v) => v[k + 1] = PosInfinite

\* C1: remove_vertex(id) with a live id completes without failure; afterwards
\* every slot (id, j) and (j, id) holds PosInfinite, id is in reusable_ids and
\* vertex_count() is one less than before.
C1_RemoveLiveVertex ==
    [][(last'.op = "remove_vertex" /\ last'.i \in live) =>
          /\ last'.outcome = "ok"
          /\ \A j \in Ids : SlotAbsent(vec', last'.i, j) /\ SlotAbsent(vec', j, last'.i)
          /\ last'.i \in reusable_ids'
          /\ vertex_count' = vertex_count - 1]_vars

\* C2: after n calls of add_vertex on an empty undirected AdjMatrix the
\* backing vector has n(n+1)/2 slots.
C2_UndirectedTriangular ==
    (only_adds /\ ~Directed) =>
        Len(vec) = (Len(returned) * (Len(returned) + 1)) \div 2

\* C3: after n calls of add_vertex on an empty directed AdjMatrix the k-th
\* call returned k, vertex_count() is n and the backing vector has n*n slots.
C3_DirectedSquare ==
    (only_adds /\ Directed) =>
        /\ returned = [k \in 1..Len(returned) |-> k - 1]
        /\ vertex_count = Len(returned)
        /\ Len(vec) = Len(returned) * Len(returned)

C3_Witness ==
    /\ only_adds
    /\ Directed
    /\ Len(returned) = MaxVertices
    /\ last.op = "add_vertex"

\* C4: the id returned by add_vertex is never the id of a vertex that is live
\* at the moment of the call.
C4_FreshId ==
    [][last'.op = "add_vertex" => last'.id \notin live]_vars

\* C5: every add_vertex call increases vertex_count() by exactly one, on the
\* recycling branch as on the sequential branch.
C5_AddIncrements ==
    [][last'.op = "add_vertex" => vertex_count' = vertex_count + 1]_vars

C7_RemoveEdgeIdempotent ==
    [][(last'.op = "remove_edge" /\ last'.outcome = "ok") =>
          LET k == from_ij(last'.i, last'.j, Directed)
          IN  /\ k < Len(vec)
              /\ last'.val = vec[k + 1]
              /\ vec' = [vec EXCEPT ![k + 1] = PosInfinite]
              /\ UNCHANGED <<reusable_ids, vertex_count, edge_type>>
              /\ last'.again => (last'.val = PosInfinite /\ UNCHANGED Storage)]_vars

C7_Witness ==
    /\ last.op = "remove_edge"
    /\ last.outcome = "ok"
    /\ last.again
    /\ {last.i, last.j} \subseteq live

\* C8: in an undirected AdjMatrix built by n add_vertex calls, add_edge(u, v, w)
\* with u, v < n succeeds, and reads at (u, v) and (v, u) both give w.
C8_UndirectedAddEdge ==
    [][(only_adds /\ ~Directed /\ last'.op = "add_edge"
            /\ last'.i < Len(returned) /\ last'.j < Len(returned)) =>
          LET uv == index(Self', last'.i, last'.j)
              vu == index(Self', last'.j, last'.i)
          IN  /\ last'.outcome = "ok"
              /\ uv.outcome = "ok"
              /\ vu.outcome = "ok"
              /\ vec'[uv.slot + 1] = Finite(last'.w)
              /\ vec'[vu.slot + 1] = Finite(last'.w)]_vars

\* C9: an access (i, j), read or write, fails with the invalid-vertex
\* condition when i or j is reusable (i reported when both are), with the
\* out-of-bounds condition when neither is and the slot index is >= the
\* storage length, and succeeds otherwise; a failed access changes nothing.
AccessOps == {"index", "add_edge", "remove_edge"}

C9_AccessOutcome ==
    [][last'.op \in AccessOps =>
          /\ (last'.i \in reusable_ids) =>
                 (last'.outcome = "invalid_vertex" /\ last'.id = last'.i)
          /\ (last'.i \notin reusable_ids /\ last'.j \in reusable_ids) =>
                 (last'.outcome = "invalid_vertex" /\ last'.id = last'.j)
          /\ (last'.i \notin reusable_ids /\ last'.j \notin reusable_ids) =>
                 (last'.outcome =
                     IF from_ij(last'.i, last'.j, Directed) >= Len(vec)
                     THEN "out_of_bounds" ELSE "ok")
          /\ last'.outcome # "ok" => UNCHANGED Storage]_vars

C9_Witness ==
    /\ last.op = "add_edge"
    /\ last.outcome = "invalid_vertex"
    /\ last.i # last.j
    /\ {last.i, last.j} \subseteq reusable_ids
    /\ last.id = last.i

\* C14: after n add_vertex calls on an empty directed AdjMatrix, with no edge
\* added, a read at (i, j) succeeds for all i, j < n and gives PosInfinite.
C14_FreshDirectedReads ==
    (only_adds /\ Directed /\ last.op = "index"
        /\ last.i < Len(returned) /\ last.j < Len(returned)) =>
        (last.outcome = "ok" /\ last.val = PosInfinite)

C14_Witness ==
    /\ only_adds
    /\ Directed
    /\ last.op = "index"
    /\ Len(returned) = MaxVertices
    /\ last.i = MaxVertices - 1
    /\ last.j = 0
    /\ last.outcome = "ok"

\* C18: remove_vertex(id) with an id that is not live fails and leaves the
\* storage (reusable_ids, vertex_count, every slot) as it was.
C18_RemoveDeadVertex ==
    [][(last'.op = "remove_vertex" /\ last'.i \notin live) =>
          (last'.outcome # "ok" /\ UNCHANGED Storage)]_vars

\* ------------------------------------------- graph, id map and traversal
Nodes == 0..MaxRealId

\* provide::Neighbors::neighbors on an undirected graph.
neighbors(real_id) ==
    {v \in g_vertices : <<real_id, v>> \in g_edges \/ <<v, real_id>> \in g_edges}

\* Continuous id map: virtual ids 0..count-1 in ascending order of real id.
virt_id_of(vertices, real_id) == Cardinality({v \in vertices : v < real_id})

get_virt_to_real(vertices, virt_id) ==
    IF virt_id < Cardinality(vertices)
    THEN Some(CHOOSE v \in vertices : virt_id_of(vertices, v) = virt_id)
    ELSE None

real_id_of(vertices, virt_id) == get_virt_to_real(vertices, virt_id).id

VirtIds == 0..(Cardinality(g_vertices) - 1)

\* ------------------------------------------------- ConnectedComponents
\* on_white that records the vertex twice.
on_white_twice(self, vertices, virt_id) ==
    LET real_id == get_virt_to_real(vertices, virt_id).id
    IN  [self EXCEPT !.current_component = Append(Append(@, real_id), real_id)]

\* DfsListener::on_white
on_white(self, vertices, virt_id) ==
    LET real_id == get_virt_to_real(vertices, virt_id).id
    IN  [self EXCEPT !.current_component = Append(@, real_id)]

\* on_finish that seals the component without clearing the buffer.
on_finish_no_clear(self) ==
    [ccs |-> Append(self.ccs, self.current_component),
     current_component |-> self.current_component]

\* DfsListener::on_finish
on_finish(self) ==
    [ccs |-> Append(self.ccs, self.current_component), current_component |-> <<>>]

\* ConnectedComponents::init without the direction test.
cc_init_unchecked(directed) ==
    [outcome |-> "ok", self |-> [ccs |-> <<>>, current_component |-> <<>>]]

\* ConnectedComponents::init : panics on a directed graph.
cc_init(directed) ==
    IF directed
    THEN [outcome |-> "panic", self |-> [ccs |-> <<>>, current_component |-> <<>>]]
    ELSE [outcome |-> "ok", self |-> [ccs |-> <<>>, current_component |-> <<>>]]

CCInit ==
    /\ dfs_pc = "new"
    /\ LET r == cc_init(g_directed)
       IN  IF r.outcome = "panic"
           THEN /\ dfs_pc' = "panicked"
                /\ UNCHANGED listener
           ELSE /\ dfs_pc' = "ready"
                /\ listener' = r.self
    /\ UNCHANGED <<g_directed, g_vertices, g_edges, colors, stack, result>>
    /\ UNCHANGED <<matVars, kVars, mrVars>>

\* ConnectedComponents::execute, up to Dfs::init : every vertex white.
ExecuteBegin ==
    /\ dfs_pc = "ready"
    /\ colors' = [v \in VirtIds |-> "White"]
    /\ stack' = <<>>
    /\ dfs_pc' = "idle"
    /\ UNCHANGED <<g_directed, g_vertices, g_edges, listener, result>>
    /\ UNCHANGED <<matVars, kVars, mrVars>>

\* Dfs::execute : start a tree at an unvisited vertex.
DfsStart ==
    /\ dfs_pc = "idle"
    /\ \E v \in VirtIds :
        /\ colors[v] = "White"
        /\ colors' = [colors EXCEPT ![v] = "Gray"]
        /\ stack' = <<v>>
        /\ listener' = on_white(listener, g_vertices, v)
    /\ dfs_pc' = "tree"
    /\ UNCHANGED <<g_directed, g_vertices, g_edges, result>>
    /\ UNCHANGED <<matVars, kVars, mrVars>>

WhiteNeighbors(u) ==
    {v \in VirtIds : /\ colors[v] = "White"
                     /\ real_id_of(g_vertices, v) \in neighbors(real_id_of(g_vertices, u))}

\* Dfs::execute : discover a white neighbour of the vertex on top of the stack.
DfsDiscover ==
    /\ dfs_pc = "tree"
    /\ stack # <<>>
    /\ \E v \in WhiteNeighbors(stack[Len(stack)]) :
        /\ colors' = [colors EXCEPT ![v] = "Gray"]
        /\ stack' = Append(stack, v)
        /\ listener' = on_white(listener, g_vertices, v)
    /\ UNCHANGED <<g_directed, g_vertices, g_edges, result, dfs_pc>>
    /\ UNCHANGED <<matVars, kVars, mrVars>>

\* Dfs::execute : the vertex on top of the stack has no white neighbour left.
DfsBlacken ==
    /\ dfs_pc = "tree"
    /\ stack # <<>>
    /\ WhiteNeighbors(stack[Len(stack)]) = {}
    /\ colors' = [colors EXCEPT ![stack[Len(stack)]] = "Black"]
    /\ stack' = SubSeq(stack, 1, Len(stack) - 1)
    /\ UNCHANGED <<g_directed, g_vertices, g_edges, listener, result, dfs_pc>>
    /\ UNCHANGED <<matVars, kVars, mrVars>>

\* Dfs::execute : the tree is exhausted; the listener is told.
DfsFinishTree ==
    /\ dfs_pc = "tree"
    /\ stack = <<>>
    /\ listener' = on_finish(listener)
    /\ dfs_pc' = "idle"
    /\ UNCHANGED <<g_directed, g_vertices, g_edges, colors, stack, result>>
    /\ UNCHANGED <<matVars, kVars, mrVars>>

\* ConnectedComponents::execute : no white vertex is left; self.ccs is returned.
ExecuteEnd ==
    /\ dfs_pc = "idle"
    /\ \A v \in VirtIds : colors[v] # "White"
    /\ result' = listener.ccs
    /\ dfs_pc' = "done"
    /\ UNCHANGED <<g_directed, g_vertices, g_edges, listener, colors, stack>>
    /\ UNCHANGED <<matVars, kVars, mrVars>>

\* A graph of at most MaxRealId + 1 vertices; no storage operation is modelled here.
InitCC ==
    /\ MatInit("Undirected")
    /\ NoKruskal
    /\ NoSubgraph
    /\ g_directed \in BOOLEAN
    /\ g_vertices \in SUBSET Nodes
    /\ g_edges \in SUBSET {e \in g_vertices \X g_vertices : e[1] < e[2]}
    /\ listener = [current_component |-> <<>>, ccs |-> <<>>]
    /\ colors = <<>>
    /\ stack = <<>>
    /\ result = <<>>
    /\ dfs_pc = "new"

NextCC ==
    \/ CCInit
    \/ ExecuteBegin
    \/ DfsStart
    \/ DfsDiscover
    \/ DfsBlacken
    \/ DfsFinishTree
    \/ ExecuteEnd

SpecCC == InitCC /\ [][NextCC]_vars

\* ------------------------------------------ claims: ConnectedComponents
RECURSIVE Reach(_)
\* The vertices joined to a member of S by an undirected path.
Reach(S) ==
    LET T == S \cup UNION {neighbors(u) : u \in S}
    IN  IF T = S THEN S ELSE Reach(T)

Occurrences(v) ==
    {p \in (1..Len(result)) \X (1..Cardinality(g_vertices)) :
        p[2] <= Len(result[p[1]]) /\ result[p[1]][p[2]] = v}

ComponentOf(v) == CHOOSE c \in 1..Len(result) : \E k \in 1..Len(result[c]) : result[c][k] = v

\* C10: on an undirected graph execute returns a set partition of the live
\* vertices (each live id in exactly one component, once; nothing else; no
\* empty component), and two vertices share a component iff a path joins them.
C10_ComponentsPartition ==
    (dfs_pc = "done" /\ ~g_directed) =>
        /\ \A c \in 1..Len(result) :
              /\ Len(result[c]) > 0
              /\ \A k \in 1..Len(result[c]) : result[c][k] \in g_vertices
        /\ \A v \in g_vertices : Cardinality(Occurrences(v)) = 1
        /\ \A u, v \in g_vertices :
              (ComponentOf(u) = ComponentOf(v)) <=> (v \in Reach({u}))

C10_Witness ==
    /\ dfs_pc = "done"
    /\ ~g_directed
    /\ Len(result) = 2
    /\ g_edges # {}
    /\ \E c \in 1..Len(result) : Len(result[c]) = 2 /\ result[c][1] > result[c][2]

SpecCCFair == SpecCC /\ WF_vars(NextCC)

Walking == {"idle", "tree"}

TurnsGray(v) == colors[v] = "White" /\ colors'[v] = "Gray"

AllBlack == \A v \in VirtIds : colors[v] = "Black"

\* One step of the traversal, as the claim describes it.
C17_Step ==
    (dfs_pc \in Walking /\ dfs_pc' \in Walking \cup {"done"}) =>
        /\ \A v \in VirtIds :
              \/ colors'[v] = colors[v]
              \/ TurnsGray(v)
              \/ colors[v] = "Gray" /\ colors'[v] = "Black"
        /\ Cardinality({v \in VirtIds : TurnsGray(v)}) <= 1
        /\ \A v \in VirtIds :
              TurnsGray(v) =>
                  /\ listener'.current_component =
                        Append(listener.current_component, real_id_of(g_vertices, v))
                  /\ listener'.ccs = listener.ccs
        /\ (\A v \in VirtIds : ~TurnsGray(v)) =>
              \/ listener' = listener
              \/ /\ dfs_pc = "tree"
                 /\ dfs_pc' = "idle"
                 /\ \A v \in VirtIds : colors[v] # "Gray"
                 /\ \A k \in 1..Len(listener.current_component) :
                       neighbors(listener.current_component[k]) \subseteq
                           {listener.current_component[m] :
                               m \in 1..Len(listener.current_component)}
        /\ (dfs_pc = "tree" /\ dfs_pc' = "idle") <=>
              Len(listener'.ccs) = Len(listener.ccs) + 1
        /\ Len(listener'.ccs) \in {Len(listener.ccs), Len(listener.ccs) + 1}
        /\ dfs_pc' = "done" => AllBlack'

\* C17: during one execute every colour moves only white -> gray -> black,
\* on_white is delivered once per vertex at its white -> gray step, on_finish
\* once per traversal tree after the whole tree is discovered, and execute
\* ends with every vertex black.
C17_ColourProtocol ==
    /\ [][C17_Step]_vars
    /\ (~g_directed => <>(dfs_pc = "done" /\ AllBlack))

C17_Witness ==
    /\ dfs_pc = "done"
    /\ AllBlack
    /\ Len(listener.ccs) = 2
    /\ Cardinality(g_vertices) = MaxRealId + 1

\* ---------------------------------------------------------------- Kruskal
KWeights == 1..MaxKWeight

\* provide::Edges::edges on an undirected graph: every edge in both directions.
DirectedTriples ==
    {<<e[1], e[2], e[3]>> : e \in g_wedges} \cup {<<e[2], e[1], e[3]>> : e \in g_wedges}

RECURSIVE SeqOf(_)
\* A set of triples as a sequence, in ascending (src, dst) order.
SeqOf(S) ==
    IF S = {}
    THEN <<>>
    ELSE LET e == CHOOSE x \in S :
                     \A y \in S : x[1] < y[1] \/ (x[1] = y[1] /\ x[2] <= y[2])
         IN  <<e>> \o SeqOf(S \ {e})

graph_edges == SeqOf(DirectedTriples)

\* The filter of execute with no test at all.
edge_filter_none(src_id, dst_id) == TRUE

\* execute: .filter(|(src_id, dst_id, _)| src_id < dst_id)
edge_filter(src_id, dst_id) == src_id < dst_id

Keep(e) == edge_filter(e[1], e[2])

\* The comparison of execute's sort, reversed.
weight_le_reversed(w1, w2) == w1 >= w2

\* execute: e1.get_weight().cmp(e2.get_weight()), as "not greater".
weight_le(w1, w2) == w1 <= w2

RECURSIVE SortedOrders(_, _)
\* What the stable sort_by can give for the list `es`, whose order before the
\* sort is the unspecified order of edges(): every arrangement of the
\* positions `rem` that is ascending by weight.
SortedOrders(es, rem) ==
    IF rem = {}
    THEN {<<>>}
    ELSE UNION {{<<es[i]>> \o t : t \in SortedOrders(es, rem \ {i})} :
                   i \in {i \in rem : \A j \in rem : weight_le(es[i][3], es[j][3])}}

\* Kruskal::init with the sets left empty.
kruskal_init_empty(vertex_count_) == [v \in 0..(vertex_count_ - 1) |-> {}]

\* Kruskal::init : one singleton set per virtual id.
kruskal_init(vertex_count_) == [v \in 0..(vertex_count_ - 1) |-> {v}]

\* execute: !sets[v].eq(sets[u])
same_set(sets, v, u) == sets[v] = sets[u]

\* The union of execute, repointing only the two endpoints.
union_endpoints_only(sets, v, u) ==
    LET union_set == sets[v] \cup sets[u]
    IN  [m \in DOMAIN sets |-> IF m \in {v, u} THEN union_set ELSE sets[m]]

\* execute: the union, shared by every member of the merged set.
union(sets, v, u) ==
    LET union_set == sets[v] \cup sets[u]
    IN  [m \in DOMAIN sets |-> IF m \in union_set THEN union_set ELSE sets[m]]

\* The body of the for loop, pushing the pair the other way round.
process_edge_swapped(sets, mst, vertices, edge) ==
    LET v_virt_id == virt_id_of(vertices, edge[1])
        u_virt_id == virt_id_of(vertices, edge[2])
    IN  IF ~same_set(sets, v_virt_id, u_virt_id)
        THEN [mst |-> Append(mst, <<edge[2], edge[1]>>),
              sets |-> union(sets, v_virt_id, u_virt_id)]
        ELSE [mst |-> mst, sets |-> sets]

\* execute: the body of the for loop over the sorted edges.
process_edge(sets, mst, vertices, edge) ==
    LET v_virt_id == virt_id_of(vertices, edge[1])
        u_virt_id == virt_id_of(vertices, edge[2])
    IN  IF ~same_set(sets, v_virt_id, u_virt_id)
        THEN [mst |-> Append(mst, <<edge[1], edge[2]>>),
              sets |-> union(sets, v_virt_id, u_virt_id)]
        ELSE [mst |-> mst, sets |-> sets]

\* Kruskal::init(&graph)
KInit ==
    /\ k_pc = "new"
    /\ k_sets' = kruskal_init(Cardinality(g_vertices))
    /\ k_pc' = "ready"
    /\ UNCHANGED <<g_wedges, k_edges, k_pos, k_mst, k_result>>
    /\ UNCHANGED <<matVars, ccVars, mrVars>>

\* execute, up to the for loop: collect, filter and sort the edges.
KCollect ==
    /\ k_pc = "ready"
    /\ LET es == SelectSeq(graph_edges, Keep)
       IN  \E sorted \in SortedOrders(es, 1..Len(es)) : k_edges' = sorted
    /\ k_mst' = <<>>
    /\ k_pos' = 1
    /\ k_pc' = "loop"
    /\ UNCHANGED <<g_wedges, k_sets, k_result>>
    /\ UNCHANGED <<matVars, ccVars, mrVars>>

\* execute: one iteration of the for loop.
KStep ==
    /\ k_pc = "loop"
    /\ k_pos <= Len(k_edges)
    /\ LET r == process_edge(k_sets, k_mst, g_vertices, k_edges[k_pos])
       IN  /\ k_sets' = r.sets
           /\ k_mst' = r.mst
    /\ k_pos' = k_pos + 1
    /\ UNCHANGED <<g_wedges, k_edges, k_result, k_pc>>
    /\ UNCHANGED <<matVars, ccVars, mrVars>>

\* execute: the loop is over; mst is returned.
KReturn ==
    /\ k_pc = "loop"
    /\ k_pos > Len(k_edges)
    /\ k_result' = k_mst
    /\ k_pc' = "done"
    /\ UNCHANGED <<g_wedges, k_sets, k_edges, k_pos, k_mst>>
    /\ UNCHANGED <<matVars, ccVars, mrVars>>

\* Unordered pairs over V; vertex 0 may carry a self-loop.
PairsOf(V) == {p \in V \X V : p[1] < p[2] \/ (p[1] = p[2] /\ p[1] = 0)}

\* The weighted graphs over V with at most MaxKEdges edges, one per pair,
\* all added as (lower, higher) or all as (higher, lower).
WeightedGraphs(V) ==
    UNION {{{<<IF f THEN p[2] ELSE p[1], IF f THEN p[1] ELSE p[2], w[p]>> : p \in S} :
               w \in [S -> KWeights], f \in BOOLEAN} :
           S \in {T \in SUBSET PairsOf(V) : Cardinality(T) <= MaxKEdges}}

\* tests::trivial_directed_graph : a..f are 0..5.
ScenarioVertices == {0, 1, 2, 3, 4, 5}

ScenarioEdges ==
    {<<0, 1, 1>>, <<0, 2, 3>>, <<0, 5, 3>>, <<1, 2, 5>>, <<1, 3, 1>>,
     <<3, 2, 2>>, <<3, 4, 4>>, <<4, 2, 1>>, <<4, 5, 5>>}

\* An undirected weighted graph: a bounded one, or the scenario of the test.
InitK ==
    /\ MatInit("Undirected")
    /\ NoSubgraph
    /\ g_directed = FALSE
    /\ g_edges = {}
    /\ listener = [current_component |-> <<>>, ccs |-> <<>>]
    /\ colors = <<>>
    /\ stack = <<>>
    /\ result = <<>>
    /\ dfs_pc = "new"
    /\ \/ /\ g_vertices \in SUBSET Nodes
          /\ g_wedges \in WeightedGraphs(g_vertices)
       \/ /\ g_vertices = ScenarioVertices
          /\ g_wedges = ScenarioEdges
    /\ k_sets = <<>>
    /\ k_edges = <<>>
    /\ k_pos = 1
    /\ k_mst = <<>>
    /\ k_result = <<>>
    /\ k_pc = "new"

NextK ==
    \/ KInit
    \/ KCollect
    \/ KStep
    \/ KReturn

SpecK == InitK /\ [][NextK]_vars

\* ------------------------------------------------------- claims: Kruskal
\* The graph's edges between distinct vertices, as pairs <<lower, higher>>.
GraphPairs == {<<Min2(e[1], e[2]), Max2(e[1], e[2])>> : e \in {x \in g_wedges : x[1] # x[2]}}

WeightOfPair(p) ==
    (CHOOSE e \in g_wedges : {e[1], e[2]} = {p[1], p[2]})[3]

\* Pairs of a sequence of (real, real) pairs, orientation dropped.
PairsIn(sq) == {<<Min2(sq[k][1], sq[k][2]), Max2(sq[k][1], sq[k][2])>> : k \in 1..Len(sq)}

RECURSIVE KReach(_, _)
\* The vertices joined to a member of S by a path of pairs of F.
KReach(F, S) ==
    LET T == S \cup {p[2] : p \in {q \in F : q[1] \in S}}
               \cup {p[1] : p \in {q \in F : q[2] \in S}}
    IN  IF T = S THEN S ELSE KReach(F, T)

ComponentCount(F) == Cardinality({KReach(F, {v}) : v \in g_vertices})

IsForest(F) == Cardinality(F) = Cardinality(g_vertices) - ComponentCount(F)

RECURSIVE SumWeights(_)
SumWeights(F) ==
    IF F = {}
    THEN 0
    ELSE LET p == CHOOSE q \in F : TRUE
         IN  WeightOfPair(p) + SumWeights(F \ {p})

\* Reference: every spanning forest of the graph, by enumeration.
SpanningForests ==
    {F \in SUBSET GraphPairs :
        IsForest(F) /\ ComponentCount(F) = ComponentCount(GraphPairs)}

MinForestWeight ==
    LET ws == {SumWeights(F) : F \in SpanningForests}
    IN  CHOOSE w \in ws : \A x \in ws : w <= x

\* C11: the list execute returns is acyclic, holds only edges of the graph
\* and has V - C edges (C the number of connected components).
C11_SpanningForest ==
    k_pc = "done" =>
        /\ PairsIn(k_result) \subseteq GraphPairs
        /\ Cardinality(PairsIn(k_result)) = Len(k_result)
        /\ IsForest(PairsIn(k_result))
        /\ Len(k_result) = Cardinality(g_vertices) - ComponentCount(GraphPairs)

C11_Witness ==
    /\ k_pc = "done"
    /\ Len(k_result) = 2
    /\ Cardinality(GraphPairs) = 3
    /\ Len(k_edges) = 3

\* C12: the total weight of the returned edges is the least total weight of
\* a spanning forest; the scenario of the test gives 5 edges of weight 8.
C12_MinimumWeight ==
    k_pc = "done" =>
        /\ PairsIn(k_result) \subseteq GraphPairs
        /\ SumWeights(PairsIn(k_result)) = MinForestWeight
        /\ g_wedges = ScenarioEdges =>
              (Len(k_result) = 5 /\ SumWeights(PairsIn(k_result)) = 8)

C12_Witness ==
    /\ k_pc = "done"
    /\ g_wedges = ScenarioEdges
    /\ Len(k_result) = 5

\* C15: after init and after every processed edge the sets are a partition
\* of the virtual ids: v is in sets[v], and sets[m] = sets[v] for m in sets[v].
C15_ValidPartition ==
    k_pc \in {"ready", "loop", "done"} =>
        /\ DOMAIN k_sets = 0..(Cardinality(g_vertices) - 1)
        /\ \A v \in DOMAIN k_sets :
              /\ v \in k_sets[v]
              /\ k_sets[v] \subseteq DOMAIN k_sets
              /\ \A m \in k_sets[v] : k_sets[m] = k_sets[v]

C15_Witness ==
    /\ k_pc = "loop"
    /\ k_pos <= Len(k_edges)
    /\ \E v \in DOMAIN k_sets : Cardinality(k_sets[v]) = 3
    /\ \E v \in DOMAIN k_sets : Cardinality(k_sets[v]) = 1

Occurs(sq, x) == Cardinality({k \in 1..Len(sq) : sq[k] = x})

\* C16: every edge {u, v}, u # v, is a candidate exactly once, as
\* (min, max), whichever way round it was added; nothing else is a candidate.
C16_EachEdgeOnce ==
    k_pc \in {"loop", "done"} =>
        /\ \A e \in g_wedges :
              e[1] # e[2] =>
                  Occurs(k_edges, <<Min2(e[1], e[2]), Max2(e[1], e[2]), e[3]>>) = 1
        /\ Len(k_edges) = Cardinality(GraphPairs)

C16_Witness ==
    /\ k_pc = "loop"
    /\ \E e \in g_wedges : e[1] > e[2]
    /\ \E e \in g_wedges : e[1] = e[2]
    /\ Len(k_edges) = 2

\* Two virtual ids have equal sets iff accepted edges join their vertices.
C19_SetsAreComponents ==
    k_pc \in {"ready", "loop", "done"} =>
        /\ \A v, u \in DOMAIN k_sets :
              (k_sets[v] = k_sets[u]) <=>
                  (real_id_of(g_vertices, u) \in
                      KReach(PairsIn(k_mst), {real_id_of(g_vertices, v)}))
        /\ \A k \in 1..Len(k_mst) : k_mst[k][1] < k_mst[k][2]

\* An edge is accepted iff accepted edges did not join its endpoints yet.
C19_Step ==
    (k_pc = "loop" /\ k_pc' = "loop" /\ k_pos' = k_pos + 1) =>
        LET e == k_edges[k_pos]
            joined == e[2] \in KReach(PairsIn(k_mst), {e[1]})
        IN  /\ ~joined => k_mst' = Append(k_mst, <<e[1], e[2]>>)
            /\ joined => k_mst' = k_mst

\* C19: at every step of execute two virtual ids are in equal sets iff a path
\* of accepted edges joins them; an edge is accepted iff its endpoints were
\* not joined yet; every returned pair (s, d) has s < d.
C19_AcceptIffDisconnected ==
    /\ []C19_SetsAreComponents
    /\ [][C19_Step]_vars

C19_Witness ==
    /\ k_pc = "loop"
    /\ k_pos = 4
    /\ Len(k_mst) = 2
    /\ \E e \in g_wedges : e[1] > e[2]

\* ------------------------------------------------------ MultiRootSubgraph
RECURSIVE AscSeq(_)
\* A set of ids as a Vec, ascending.
AscSeq(S) ==
    IF S = {}
    THEN <<>>
    ELSE LET x == CHOOSE y \in S : \A z \in S : y <= z
         IN  <<x>> \o AscSeq(S \ {x})

RootLists == UNION {[1..n -> Nodes] : n \in 0..MaxRoots}

\* Subgraph::init, as far as the vertices go: the view keeps the vertices it is given.
subgraph_init(vertices) == vertices

\* MultiRootSubgraph::init
multi_root_init(vertices, roots) ==
    [roots |-> roots, vertices |-> subgraph_init(vertices)]

\* MultiRootSubgraph::roots
roots_of(self) == self.roots

\* MultiRootSubgraph::is_root
is_root(self, vertex_id) == \E k \in 1..Len(self.roots) : self.roots[k] = vertex_id

\* Vertices::vertices for MultiRootSubgraph : self.subgraph.vertices()
vertices_of(self) == self.vertices

MRInit ==
    /\ mr_pc = "new"
    /\ mr_self' = multi_root_init(mr_args.vertices, mr_args.roots)
    /\ mr_pc' = "built"
    /\ UNCHANGED <<mr_args, mr_last>>
    /\ UNCHANGED <<matVars, ccVars, kVars>>

IsRoot ==
    /\ mr_pc \in {"built", "asked"}
    /\ \E vertex_id \in Nodes : mr_last' = [id |-> vertex_id, ret |-> is_root(mr_self, vertex_id)]
    /\ mr_pc' = "asked"
    /\ UNCHANGED <<mr_args, mr_self>>
    /\ UNCHANGED <<matVars, ccVars, kVars>>

\* Any vertices and any roots a caller can pass.
InitMR ==
    /\ MatInit("Undirected")
    /\ NoAlgorithm
    /\ NoKruskal
    /\ \E V \in SUBSET Nodes, R \in RootLists :
          mr_args = [vertices |-> AscSeq(V), roots |-> R]
    /\ mr_self = [vertices |-> <<>>, roots |-> <<>>]
    /\ mr_last = [id |-> 0, ret |-> FALSE]
    /\ mr_pc = "new"

NextMR ==
    \/ MRInit
    \/ IsRoot

SpecMR == InitMR /\ [][NextMR]_vars

ElementsOf(sq) == {sq[k] : k \in 1..Len(sq)}

\* C20: is_root(id) is true iff id is among the roots given to init, and
\* every root is one of the subgraph's vertices.
C20_RootsAreVertices ==
    mr_pc = "asked" =>
        /\ mr_last.ret <=> (mr_last.id \in ElementsOf(mr_args.roots))
        /\ mr_last.ret => (mr_last.id \in ElementsOf(vertices_of(mr_self)))

====
